---- MODULE Spec2Model ----
(***************************************************************************)
(* XY-Cut++ reading order recovery of RapidDocCpp (xycut.h / xycut.cpp).   *)
(*                                                                         *)
(* LayoutBox coordinates are floats in the source.  Here they are          *)
(* fixed-point numbers with one fractional bit: a coordinate c stands for  *)
(* c/2 pixels, so widths and heights are in half pixels and centers        *)
(* ((x0+x1)/2) are kept as the sum x0+x1, in quarter pixels.  On such      *)
(* values the float arithmetic of the source is exact.                     *)
(* Box indices are 0-based as in the source; the box with index i is       *)
(* boxes[i+1].                                                             *)
(***************************************************************************)
EXTENDS Integers, Sequences, FiniteSets, TLC

VARIABLES
    boxes,        \* std::vector<LayoutBox> handed to the call
    pageWidth,    \* int pageWidth
    pageHeight,   \* int pageHeight
    config,       \* XYCutConfig
    pc,           \* "input" before a call, then the name of the call made
    result,       \* value returned by xycutPlusSort
    detected,     \* value returned by detectTextDirection
    values,       \* histogram handed to splitProjectionProfile
    splitMinValue,
                  \* int minValue handed to splitProjectionProfile
    splitMinGap,  \* int minGap handed to splitProjectionProfile
    segments,     \* value returned by splitProjectionProfile
    dir,          \* TextDirection dir of xycutPlusSort, "NONE" until it is set
    stack,        \* index vectors of the pending calls of recursiveXYCut or
                  \* recursiveYXCut, the next call first
    cutOf,        \* index vector of the last call that split
    groups,       \* the groups that call handed to its recursive calls
    procs,        \* for each pending call of stack, the procedure called
    called,       \* the calls of recursiveXYCut and recursiveYXCut made so
                  \* far, each as <<procedure, indices>>
    detectedOn,   \* the box lists xycutPlusSort has handed to
                  \* detectTextDirection
    elements,     \* PageResult::elements of the page DocPipeline processes
    written,      \* the cells projectionByBboxes has incremented (indices i of
                  \* projection[i]++)
    requestCount, \* DocServer::requestCount_
    successCount, \* DocServer::successCount_
    errorCount,   \* DocServer::errorCount_
    reqs,         \* the POST requests: for each, the position of its handler
                  \* and what the handler holds
    files,        \* the files of config_.uploadDir by name: the set holding
                  \* the request whose bytes the file has, {} when there is
                  \* no such file
    pageImages,   \* the pages a PDF renders to: for each page the regions
                  \* the layout detector finds on its image
    document      \* the DocumentResult DocPipeline returns

vars == <<boxes, pageWidth, pageHeight, config, pc, result, detected,
          values, splitMinValue, splitMinGap, segments, dir, stack, cutOf, groups,
          procs, called, detectedOn,
          elements, written, requestCount, successCount, errorCount, reqs, files,
          pageImages, document>>

\* the variables of a call of xycutPlusSort made step by step
callVars == <<dir, stack, cutOf, groups, procs, called, detectedOn>>

\* the variables of DocPipeline
pipelineVars == <<elements>>

\* the variables of a call of projectionByBboxes alone
projectVars == <<written>>

\* the variables of DocServer and its upload directory
serverVars == <<requestCount, successCount, errorCount, reqs, files>>

\* the variables of a call of processPdf or processPdfFromMemory
documentVars == <<pageImages, document>>

\* the variables of the calls of the reading order functions
xycutVars == <<boxes, pageWidth, pageHeight, config, pc, result, detected,
               values, splitMinValue, splitMinGap, segments>>

-----------------------------------------------------------------------------
(* Bounds of the model *)

MaxBoxes == 3

-----------------------------------------------------------------------------
(* Arithmetic helpers *)

Max(a, b) == IF a >= b THEN a ELSE b

Min(a, b) == IF a <= b THEN a ELSE b

Abs(a) == IF a >= 0 THEN a ELSE -a

\* static_cast<int>(float) of a half-pixel coordinate: truncation toward zero
Trunc(c) == IF c >= 0 THEN c \div 2 ELSE -((-c) \div 2)

\* LayoutBox::width(), in half pixels
width(b) == b.x1 - b.x0

\* LayoutBox::height(), in half pixels
height(b) == b.y1 - b.y0

\* LayoutBox::center().x, in quarter pixels
centerX(b) == b.x0 + b.x1

\* LayoutBox::center().y, in quarter pixels
centerY(b) == b.y0 + b.y1

\* a pixel position (int) in quarter pixels, for comparison with a center
Px(i) == 4 * i

-----------------------------------------------------------------------------
(* detectTextDirection *)

\* DetectStep without the test for positive width and height: zero-area
\* boxes are counted in totalCount
DetectStep_CountsDegenerate(st, box) ==
    [horizontalCount |-> IF width(box) > 0 /\ height(box) > 0
                            /\ 2 * width(box) >= 3 * height(box)
                         THEN st.horizontalCount + 1
                         ELSE st.horizontalCount,
     totalCount |-> st.totalCount + 1]

\* one iteration of the counting loop; st = [horizontalCount, totalCount]
DetectStep(st, box) ==
    IF width(box) > 0 /\ height(box) > 0
    THEN [horizontalCount |-> IF 2 * width(box) >= 3 * height(box)
                              THEN st.horizontalCount + 1
                              ELSE st.horizontalCount,
          totalCount |-> st.totalCount + 1]
    ELSE st

\* DetectLoop with an off-by-one bound: the last box is not visited
RECURSIVE DetectLoop_SkipsLast(_, _, _)
DetectLoop_SkipsLast(bs, k, st) ==
    IF k >= Len(bs) THEN st
    ELSE DetectLoop_SkipsLast(bs, k + 1, DetectStep(st, bs[k]))

RECURSIVE DetectLoop(_, _, _)
DetectLoop(bs, k, st) ==
    IF k > Len(bs) THEN st ELSE DetectLoop(bs, k + 1, DetectStep(st, bs[k]))

detectTextDirection(bs) ==
    IF Len(bs) = 0 THEN "HORIZONTAL"
    ELSE LET st == DetectLoop(bs, 1, [horizontalCount |-> 0, totalCount |-> 0])
         IN IF st.totalCount = 0 THEN "HORIZONTAL"
            \* float(horizontalCount) / totalCount >= 0.5f
            ELSE IF 2 * st.horizontalCount >= st.totalCount THEN "HORIZONTAL"
            ELSE "VERTICAL"

-----------------------------------------------------------------------------
(* detail::projectionByBboxes *)

\* first pixel a box covers on the axis
ProjStart(box, axis) ==
    IF axis = 0 THEN Max(0, Trunc(box.x0)) ELSE Max(0, Trunc(box.y0))

\* ProjEnd without std::min(size, ...)
ProjEnd_Unclipped(box, axis, size) ==
    IF axis = 0 THEN Trunc(box.x1) ELSE Trunc(box.y1)

\* one past the last pixel a box covers on the axis
ProjEnd(box, axis, size) ==
    IF axis = 0 THEN Min(size, Trunc(box.x1)) ELSE Min(size, Trunc(box.y1))

\* the inner loop: projection[i]++ for start <= i < end
ProjAdd(projection, box, axis, size) ==
    [i \in DOMAIN projection |->
        IF ProjStart(box, axis) <= i /\ i < ProjEnd(box, axis, size)
        THEN projection[i] + 1 ELSE projection[i]]

RECURSIVE ProjLoop(_, _, _, _, _)
ProjLoop(bs, k, axis, size, projection) ==
    IF k > Len(bs) THEN projection
    ELSE ProjLoop(bs, k + 1, axis, size, ProjAdd(projection, bs[k], axis, size))

\* the indices i at which the loops execute projection[i]++
ProjWrites(bs, axis, size) ==
    UNION {ProjStart(bs[k], axis)..(ProjEnd(bs[k], axis, size) - 1) : k \in DOMAIN bs}

\* the histogram is a function on 0..size-1
projectionByBboxes(bs, axis, size) ==
    ProjLoop(bs, 1, axis, size, [i \in 0..(size - 1) |-> 0])

-----------------------------------------------------------------------------
(* detail::splitProjectionProfile *)

\* SplitStep with the gap test inverted (gapCount < minGap)
SplitStep_InvertedGapTest(st, v, i, minValue, minGap) ==
    IF v > minValue
    THEN [st EXCEPT !.segStart = IF st.inSegment THEN st.segStart ELSE i,
                    !.inSegment = TRUE,
                    !.gapCount = 0]
    ELSE IF st.inSegment
         THEN IF st.gapCount + 1 < minGap
              THEN [st EXCEPT !.segs = Append(st.segs, <<st.segStart, i - (st.gapCount + 1) + 1>>),
                              !.inSegment = FALSE,
                              !.gapCount = 0]
              ELSE [st EXCEPT !.gapCount = st.gapCount + 1]
         ELSE st

\* SplitStep closing a segment where the gap ended (i + 1), not where the
\* occupied run ended
SplitStep_EndsAfterGap(st, v, i, minValue, minGap) ==
    IF v > minValue
    THEN [st EXCEPT !.segStart = IF st.inSegment THEN st.segStart ELSE i,
                    !.inSegment = TRUE,
                    !.gapCount = 0]
    ELSE IF st.inSegment
         THEN IF st.gapCount + 1 >= minGap
              THEN [st EXCEPT !.segs = Append(st.segs, <<st.segStart, i + 1>>),
                              !.inSegment = FALSE,
                              !.gapCount = 0]
              ELSE [st EXCEPT !.gapCount = st.gapCount + 1]
         ELSE st

\* SplitStep without gapCount = 0 on an occupied pixel
SplitStep_KeepsGapCount(st, v, i, minValue, minGap) ==
    IF v > minValue
    THEN [st EXCEPT !.segStart = IF st.inSegment THEN st.segStart ELSE i,
                    !.inSegment = TRUE]
    ELSE IF st.inSegment
         THEN IF st.gapCount + 1 >= minGap
              THEN [st EXCEPT !.segs = Append(st.segs, <<st.segStart, i - (st.gapCount + 1) + 1>>),
                              !.inSegment = FALSE,
                              !.gapCount = 0]
              ELSE [st EXCEPT !.gapCount = st.gapCount + 1]
         ELSE st

\* the body of the scan loop at position i
SplitStep(st, v, i, minValue, minGap) ==
    IF v > minValue
    THEN [st EXCEPT !.segStart = IF st.inSegment THEN st.segStart ELSE i,
                    !.inSegment = TRUE,
                    !.gapCount = 0]
    ELSE IF st.inSegment
         THEN IF st.gapCount + 1 >= minGap
              THEN [st EXCEPT !.segs = Append(st.segs, <<st.segStart, i - (st.gapCount + 1) + 1>>),
                              !.inSegment = FALSE,
                              !.gapCount = 0]
              ELSE [st EXCEPT !.gapCount = st.gapCount + 1]
         ELSE st

RECURSIVE SplitLoop(_, _, _, _, _, _)
SplitLoop(vals, size, i, st, minValue, minGap) ==
    IF i >= size THEN st
    ELSE SplitLoop(vals, size, i + 1, SplitStep(st, vals[i], i, minValue, minGap),
                   minValue, minGap)

\* splitProjectionProfile with the scan starting at i = 1
splitProjectionProfile_SkipsFirstPixel(vals, minValue, minGap) ==
    LET size == Cardinality(DOMAIN vals)
        st == SplitLoop(vals, size, 1,
                        [segs |-> <<>>, inSegment |-> FALSE, segStart |-> 0, gapCount |-> 0],
                        minValue, minGap)
    IN IF st.inSegment THEN Append(st.segs, <<st.segStart, size>>) ELSE st.segs

\* splitProjectionProfile without the closing of the last segment after the scan
splitProjectionProfile_NoFlush(vals, minValue, minGap) ==
    SplitLoop(vals, Cardinality(DOMAIN vals), 0,
              [segs |-> <<>>, inSegment |-> FALSE, segStart |-> 0, gapCount |-> 0],
              minValue, minGap).segs

\* vals is a function on 0..size-1; the result is a sequence of <<start, end>>
splitProjectionProfile(vals, minValue, minGap) ==
    LET size == Cardinality(DOMAIN vals)
        st == SplitLoop(vals, size, 0,
                        [segs |-> <<>>, inSegment |-> FALSE, segStart |-> 0, gapCount |-> 0],
                        minValue, minGap)
    IN IF st.inSegment THEN Append(st.segs, <<st.segStart, size>>) ELSE st.segs

-----------------------------------------------------------------------------
(* std::sort *)

Range(s) == {s[i] : i \in DOMAIN s}

\* the arrangements of the elements of a sequence of distinct elements
Arrangements(s) ==
    {p \in [DOMAIN s -> Range(s)] : \A i, j \in DOMAIN s : i # j => p[i] # p[j]}

\* the requirement std::sort puts on its comparator; less is the set of
\* pairs <<a, b>> for which the comparator returns true
IsStrictWeakOrder(S, less) ==
    /\ \A a \in S : <<a, a>> \notin less
    /\ \A a, b, c \in S :
          (<<a, b>> \in less /\ <<b, c>> \in less) => <<a, c>> \in less
    /\ \A a, b, c \in S :
          (/\ <<a, b>> \notin less /\ <<b, a>> \notin less
           /\ <<b, c>> \notin less /\ <<c, b>> \notin less)
              => (<<a, c>> \notin less /\ <<c, a>> \notin less)

\* What std::sort may leave in the vector.  With a strict weak order: any
\* arrangement in which no element is less than an earlier one (the order of
\* equivalent elements is unspecified).  Otherwise the behaviour is undefined
\* and every arrangement is possible.
SortOutcomes(s, less) ==
    IF IsStrictWeakOrder(Range(s), less)
    THEN {p \in Arrangements(s) :
             \A i, j \in DOMAIN s : i < j => <<p[j], p[i]>> \notin less}
    ELSE Arrangements(s)

-----------------------------------------------------------------------------
(* detail::recursiveXYCut and detail::recursiveYXCut *)

\* std::max(1, static_cast<int>(pageSize * config.minGapRatio)),
\* minGapRatio a non-negative rational <<numerator, denominator>>
MinGap(size, cfg) ==
    Max(1, (size * cfg.minGapRatio[1]) \div cfg.minGapRatio[2])

\* static_cast<int>(config.minValueRatio), minValueRatio in halves
MinVal(cfg) == Trunc(cfg.minValueRatio)

\* subBoxes: the boxes of the current indices
SubBoxes(bs, indices) == [i \in 1..Len(indices) |-> bs[indices[i] + 1]]

\* the segments of the X (axis 0) or Y (axis 1) projection of a cut
CutSegments(bs, indices, axis, size, cfg) ==
    splitProjectionProfile(projectionByBboxes(SubBoxes(bs, indices), axis, size),
                           MinVal(cfg), MinGap(size, cfg))

\* InSegment without the upper bound: cx >= seg.first alone
InSegment_NoUpperBound(box, axis, seg) ==
    LET c == IF axis = 0 THEN centerX(box) ELSE centerY(box)
    IN c >= Px(seg[1])

\* cx >= seg.first && cx < seg.second (cy for axis 1)
InSegment(box, axis, seg) ==
    LET c == IF axis = 0 THEN centerX(box) ELSE centerY(box)
    IN c >= Px(seg[1]) /\ c < Px(seg[2])

\* Group by overlap: the indices whose box covers a pixel of the segment
Group_ByOverlap(bs, indices, axis, seg) ==
    SelectSeq(indices,
              LAMBDA idx :
                  LET lo == IF axis = 0 THEN Trunc(bs[idx + 1].x0) ELSE Trunc(bs[idx + 1].y0)
                      hi == IF axis = 0 THEN Trunc(bs[idx + 1].x1) ELSE Trunc(bs[idx + 1].y1)
                  IN lo < seg[2] /\ hi > seg[1])

\* the group of one segment: the indices whose box center lies in it, in order
Group(bs, indices, axis, seg) ==
    SelectSeq(indices, LAMBDA idx : InSegment(bs[idx + 1], axis, seg))

\* the results appended to `result` by a loop of recursive calls, one per
\* group; each call contributes one of its possible outcomes
RECURSIVE AppendAll(_)
AppendAll(outs) ==
    IF outs = <<>> THEN {<<>>}
    ELSE {a \o b : a \in Head(outs), b \in AppendAll(Tail(outs))}

\* leaf comparator of recursiveXYCut (top-to-bottom, left-to-right)
LessXY(bs, a, b) ==
    LET ya == centerY(bs[a + 1])
        yb == centerY(bs[b + 1])
        \* min(height a, height b) * 0.5f pixels, in quarter pixels
        threshold == Min(height(bs[a + 1]), height(bs[b + 1]))
    IN IF Abs(ya - yb) < threshold
       THEN centerX(bs[a + 1]) < centerX(bs[b + 1])
       ELSE ya < yb

\* LessYX ordering columns left to right (xa < xb)
LessYX_LeftToRight(bs, a, b) ==
    LET xa == centerX(bs[a + 1])
        xb == centerX(bs[b + 1])
        threshold == Min(width(bs[a + 1]), width(bs[b + 1]))
    IN IF Abs(xa - xb) < threshold
       THEN centerY(bs[a + 1]) < centerY(bs[b + 1])
       ELSE xa < xb

\* leaf comparator of recursiveYXCut (right-to-left, top-to-bottom)
LessYX(bs, a, b) ==
    LET xa == centerX(bs[a + 1])
        xb == centerX(bs[b + 1])
        threshold == Min(width(bs[a + 1]), width(bs[b + 1]))
    IN IF Abs(xa - xb) < threshold
       THEN centerY(bs[a + 1]) < centerY(bs[b + 1])
       ELSE xa > xb

\* The set of sequences a call may append to `result`.
RECURSIVE recursiveXYCut(_, _, _, _, _)
recursiveXYCut(bs, indices, pw, ph, cfg) ==
    IF Len(indices) = 0 THEN {<<>>}
    ELSE IF Len(indices) = 1 THEN {<<indices[1]>>}
    ELSE
      LET xSegments == CutSegments(bs, indices, 0, pw, cfg)
      IN IF Len(xSegments) > 1
         THEN AppendAll([s \in 1..Len(xSegments) |->
                  recursiveXYCut(bs, Group(bs, indices, 0, xSegments[s]), pw, ph, cfg)])
         ELSE
           LET ySegments == CutSegments(bs, indices, 1, ph, cfg)
           IN IF Len(ySegments) > 1
              THEN AppendAll([s \in 1..Len(ySegments) |->
                       recursiveXYCut(bs, Group(bs, indices, 1, ySegments[s]), pw, ph, cfg)])
              ELSE SortOutcomes(indices, {ab \in Range(indices) \X Range(indices) :
                                              LessXY(bs, ab[1], ab[2])})

RECURSIVE recursiveYXCut(_, _, _, _, _)
recursiveYXCut(bs, indices, pw, ph, cfg) ==
    IF Len(indices) = 0 THEN {<<>>}
    ELSE IF Len(indices) = 1 THEN {<<indices[1]>>}
    ELSE
      LET ySegments == CutSegments(bs, indices, 1, ph, cfg)
      IN IF Len(ySegments) > 1
         THEN AppendAll([s \in 1..Len(ySegments) |->
                  recursiveYXCut(bs, Group(bs, indices, 1, ySegments[s]), pw, ph, cfg)])
         ELSE
           LET xSegments == CutSegments(bs, indices, 0, pw, cfg)
           IN IF Len(xSegments) > 1
              THEN AppendAll([s \in 1..Len(xSegments) |->
                       recursiveYXCut(bs, Group(bs, indices, 0, xSegments[s]), pw, ph, cfg)])
              ELSE SortOutcomes(indices, {ab \in Range(indices) \X Range(indices) :
                                              LessYX(bs, ab[1], ab[2])})

-----------------------------------------------------------------------------
(* xycutPlusSort *)

\* std::iota(indices.begin(), indices.end(), 0)
Iota(n) == [i \in 1..n |-> i - 1]

\* the direction the sort runs in
ResolveDirection(bs, cfg) ==
    IF cfg.direction = "AUTO" THEN detectTextDirection(bs) ELSE cfg.direction

\* the set of sequences the call may return
xycutPlusSort(bs, pw, ph, cfg) ==
    IF Len(bs) = 0 THEN {<<>>}
    ELSE IF ResolveDirection(bs, cfg) = "HORIZONTAL"
         THEN recursiveXYCut(bs, Iota(Len(bs)), pw, ph, cfg)
         ELSE recursiveYXCut(bs, Iota(Len(bs)), pw, ph, cfg)

-----------------------------------------------------------------------------
(* The calls.  The page and its boxes are drawn in Init; each action is one *)
(* call on them, with the configuration as its input.                       *)

\* page extent of the calls, in pixels
PageW == 5

PageH == 5

\* Spans [lo, hi] of a box on one axis, in half pixels:
\*   <<0, 2>>    pixel 0
\*   <<3, 3>>    zero length, at 1.5
\*   <<4, 8>>    pixels 2 and 3
\*   <<3, 11>>   1.5 to 5.5: starts inside the page and reaches past its far edge
\*   <<-3, 2>>   -1.5 to 1.0: starts before the page, covers pixel 0, center -0.25
Spans == {<<0, 2>>, <<3, 3>>, <<4, 8>>, <<3, 11>>, <<-3, 2>>}

Boxes == {[x0 |-> sx[1], y0 |-> sy[1], x1 |-> sx[2], y1 |-> sy[2]] : sx \in Spans, sy \in Spans}

BoxLists == UNION {[1..n -> Boxes] : n \in 0..MaxBoxes}

\* XYCutConfig::minGapRatio values: the default 0.05f and 0.5f
GapRatios == {<<1, 20>>, <<1, 2>>}

\* (minGapRatio, minValueRatio) of the calls; minValueRatio in halves
\* (0 is the default 0.0f, 2 is 1.0f)
Thresholds == {<<<<1, 20>>, 0>>, <<<<1, 2>>, 0>>, <<<<1, 20>>, 2>>}

\* XYCutConfig values of the calls: the default (AUTO) and each explicit
\* direction with each pair of thresholds
Configs ==
    {[direction |-> "AUTO", minGapRatio |-> <<1, 20>>, minValueRatio |-> 0]}
    \cup {[direction |-> d, minGapRatio |-> t[1], minValueRatio |-> t[2]] :
              d \in {"HORIZONTAL", "VERTICAL"}, t \in Thresholds}

\* the configurations of the cuts split alone (the direction is not read)
SplitConfigs == {cfg \in Configs : cfg.direction = "HORIZONTAL"}

NoConfig == [direction |-> "NONE", minGapRatio |-> <<0, 1>>, minValueRatio |-> 0]

\* DocPipeline has no page
NoPipeline == elements = <<>>

\* projectionByBboxes has not been called
NoProject == written = {}

\* no DocServer is running
NoServer ==
    /\ requestCount = 0
    /\ successCount = 0
    /\ errorCount = 0
    /\ reqs = <<>>
    /\ files = <<>>

\* DocumentResult as its member initializers leave it
EmptyDocument ==
    [pages |-> <<>>, totalPages |-> 0, processedPages |-> 0, skippedElements |-> 0]

\* no PDF has been given to DocPipeline
NoDocument ==
    /\ pageImages = <<>>
    /\ document = EmptyDocument

\* no call of xycutPlusSort is under way
NoCalls ==
    /\ dir = "NONE"
    /\ stack = <<>>
    /\ cutOf = <<>>
    /\ groups = <<>>
    /\ procs = <<>>
    /\ called = <<>>
    /\ detectedOn = <<>>

Init ==
    /\ boxes \in BoxLists
    /\ pageWidth = PageW
    /\ pageHeight = PageH
    /\ config = NoConfig
    /\ pc = "input"
    /\ result = <<>>
    /\ detected = "NONE"
    /\ values = <<>>
    /\ splitMinValue = 0
    /\ splitMinGap = 0
    /\ segments = <<>>
    /\ NoCalls
    /\ NoPipeline
    /\ NoProject
    /\ NoServer
    /\ NoDocument

\* a call of xycutPlusSort(boxes, pageWidth, pageHeight, cfg)
Sort(cfg) ==
    /\ pc = "input"
    /\ config' = cfg
    /\ result' \in xycutPlusSort(boxes, pageWidth, pageHeight, cfg)
    /\ pc' = "sorted"
    /\ UNCHANGED <<boxes, pageWidth, pageHeight, detected, values, splitMinValue, splitMinGap, segments>>
    /\ UNCHANGED callVars
    /\ UNCHANGED pipelineVars
    /\ UNCHANGED projectVars
    /\ UNCHANGED serverVars
    /\ UNCHANGED documentVars

\* a call of detectTextDirection(boxes)
Detect ==
    /\ pc = "input"
    /\ detected' = detectTextDirection(boxes)
    /\ pc' = "detected"
    /\ UNCHANGED <<boxes, pageWidth, pageHeight, config, result, values, splitMinValue, splitMinGap, segments>>
    /\ UNCHANGED callVars
    /\ UNCHANGED pipelineVars
    /\ UNCHANGED projectVars
    /\ UNCHANGED serverVars
    /\ UNCHANGED documentVars

\* the projection of the boxes on one axis and its split, as a cut makes them
Split(axis, cfg) ==
    /\ pc = "input"
    /\ config' = cfg
    /\ LET size == IF axis = 0 THEN pageWidth ELSE pageHeight
       IN /\ values' = projectionByBboxes(boxes, axis, size)
          /\ splitMinValue' = MinVal(cfg)
          /\ splitMinGap' = MinGap(size, cfg)
          /\ segments' = splitProjectionProfile(values', splitMinValue', splitMinGap')
    /\ pc' = IF axis = 0 THEN "splitX" ELSE "splitY"
    /\ UNCHANGED <<boxes, pageWidth, pageHeight, result, detected>>
    /\ UNCHANGED callVars
    /\ UNCHANGED pipelineVars
    /\ UNCHANGED projectVars
    /\ UNCHANGED serverVars
    /\ UNCHANGED documentVars

Next ==
    \/ \E cfg \in Configs : Sort(cfg)
    \/ Detect
    \/ \E axis \in {0, 1}, cfg \in SplitConfigs : Split(axis, cfg)

Spec == Init /\ [][Next]_vars

\* the calls of detectTextDirection alone
SpecDetect == Init /\ [][Detect]_vars

-----------------------------------------------------------------------------
(* Calls of xycutPlusSort on boxes that lie within the page *)

\* the box lies within the page, its center strictly inside
BoxWithinPage(b, pw, ph) ==
    /\ 0 <= b.x0 /\ b.x1 <= 2 * pw /\ centerX(b) < Px(pw)
    /\ 0 <= b.y0 /\ b.y1 <= 2 * ph /\ centerY(b) < Px(ph)

BoxesWithinPage == {b \in Boxes : BoxWithinPage(b, PageW, PageH)}

InitWithinPage ==
    /\ boxes \in UNION {[1..n -> BoxesWithinPage] : n \in 0..MaxBoxes}
    /\ pageWidth = PageW
    /\ pageHeight = PageH
    /\ config = NoConfig
    /\ pc = "input"
    /\ result = <<>>
    /\ detected = "NONE"
    /\ values = <<>>
    /\ splitMinValue = 0
    /\ splitMinGap = 0
    /\ segments = <<>>
    /\ NoCalls
    /\ NoPipeline
    /\ NoProject
    /\ NoServer
    /\ NoDocument

NextWithinPage == \E cfg \in Configs : Sort(cfg)

SpecWithinPage == InitWithinPage /\ [][NextWithinPage]_vars

-----------------------------------------------------------------------------
(* Calls of splitProjectionProfile on any histogram *)

\* the histograms of at most PageW pixels that at most MaxBoxes boxes can give
Histograms == UNION {[0..(n - 1) -> 0..MaxBoxes] : n \in 0..PageW}

InitProfile ==
    /\ boxes = <<>>
    /\ pageWidth = PageW
    /\ pageHeight = PageH
    /\ config = NoConfig
    /\ pc = "input"
    /\ result = <<>>
    /\ detected = "NONE"
    /\ values \in Histograms
    /\ splitMinValue = 0
    /\ splitMinGap = 0
    /\ segments = <<>>
    /\ NoCalls
    /\ NoPipeline
    /\ NoProject
    /\ NoServer
    /\ NoDocument

\* a call of splitProjectionProfile(values, mv, g)
SplitProfile(mv, g) ==
    /\ pc = "input"
    /\ splitMinValue' = mv
    /\ splitMinGap' = g
    /\ segments' = splitProjectionProfile(values, mv, g)
    /\ pc' = "split"
    /\ UNCHANGED <<boxes, pageWidth, pageHeight, config, result, detected, values>>
    /\ UNCHANGED callVars
    /\ UNCHANGED pipelineVars
    /\ UNCHANGED projectVars
    /\ UNCHANGED serverVars
    /\ UNCHANGED documentVars

NextProfile == \E mv \in 0..MaxBoxes, g \in 1..PageW : SplitProfile(mv, g)

SpecProfile == InitProfile /\ [][NextProfile]_vars

-----------------------------------------------------------------------------
(* Calls of xycutPlusSort on overlapping boxes, which reach the leaf sort *)

\* Spans [lo, hi] of a box on one axis, in half pixels:
\*   <<0, 4>>    0.0 to 2.0
\*   <<1, 5>>    0.5 to 2.5
\*   <<2, 6>>    1.0 to 3.0
\*   <<1, 3>>    0.5 to 1.5, same center as <<0, 4>>
\*   <<8, 10>>   pixel 4, apart from the others
LeafSpans == {<<0, 4>>, <<1, 5>>, <<2, 6>>, <<1, 3>>, <<8, 10>>}

LeafBoxes ==
    {[x0 |-> sx[1], y0 |-> sy[1], x1 |-> sx[2], y1 |-> sy[2]] : sx \in LeafSpans, sy \in LeafSpans}

InitLeaf ==
    /\ boxes \in UNION {[1..n -> LeafBoxes] : n \in 0..MaxBoxes}
    /\ pageWidth = PageW
    /\ pageHeight = PageH
    /\ config = NoConfig
    /\ pc = "input"
    /\ result = <<>>
    /\ detected = "NONE"
    /\ values = <<>>
    /\ splitMinValue = 0
    /\ splitMinGap = 0
    /\ segments = <<>>
    /\ NoCalls
    /\ NoPipeline
    /\ NoProject
    /\ NoServer
    /\ NoDocument

NextLeaf == \E cfg \in Configs : Sort(cfg)

SpecLeaf == InitLeaf /\ [][NextLeaf]_vars

-----------------------------------------------------------------------------
(* Calls of xycutPlusSort on boxes of zero width or height and boxes lying  *)
(* over them                                                                *)

\* Spans [lo, hi] of a box on one axis, in half pixels:
\*   <<0, 4>>    0.0 to 2.0
\*   <<1, 5>>    0.5 to 2.5
\*   <<3, 3>>    zero length, at 1.5: the center of <<1, 5>>
\*   <<8, 10>>   pixel 4, apart from the others
ThinSpans == {<<0, 4>>, <<1, 5>>, <<3, 3>>, <<8, 10>>}

ThinBoxes ==
    {[x0 |-> sx[1], y0 |-> sy[1], x1 |-> sx[2], y1 |-> sy[2]] : sx \in ThinSpans, sy \in ThinSpans}

InitThin ==
    /\ boxes \in UNION {[1..n -> ThinBoxes] : n \in 0..MaxBoxes}
    /\ pageWidth = PageW
    /\ pageHeight = PageH
    /\ config = NoConfig
    /\ pc = "input"
    /\ result = <<>>
    /\ detected = "NONE"
    /\ values = <<>>
    /\ splitMinValue = 0
    /\ splitMinGap = 0
    /\ segments = <<>>
    /\ NoCalls
    /\ NoPipeline
    /\ NoProject
    /\ NoServer
    /\ NoDocument

NextThin == \E cfg \in Configs : Sort(cfg)

SpecThin == InitThin /\ [][NextThin]_vars

-----------------------------------------------------------------------------
(* A call of xycutPlusSort step by step: each step is the entry of the call, *)
(* one call of recursiveXYCut or recursiveYXCut, or the return.  The calls   *)
(* a split makes are kept in `stack` in the order the loop makes them.       *)

\* Spans [lo, hi] of a box on one axis, in half pixels:
\*   <<0, 2>>    pixel 0
\*   <<4, 8>>    pixels 2 and 3
\*   <<0, 10>>   pixels 0 to 4, lying over the two above
\*   <<-3, 2>>   -1.5 to 1.0: covers pixel 0, center before the page
CoverSpans == {<<0, 2>>, <<4, 8>>, <<0, 10>>, <<-3, 2>>}

\* boxes that differ on one axis, and one apart from the others on both
CoverBoxes ==
    {[x0 |-> sx[1], y0 |-> 0, x1 |-> sx[2], y1 |-> 2] : sx \in CoverSpans}
    \cup {[x0 |-> 0, y0 |-> sy[1], x1 |-> 2, y1 |-> sy[2]] : sy \in CoverSpans}
    \cup {[x0 |-> 4, y0 |-> 4, x1 |-> 8, y1 |-> 8]}

\* spans of a box given alone: those of Spans, and two wholly outside the page
SingleSpans == Spans \cup {<<-6, -2>>, <<12, 14>>}

SingleBoxes ==
    {[x0 |-> sx[1], y0 |-> sy[1], x1 |-> sx[2], y1 |-> sy[2]] : sx \in SingleSpans, sy \in SingleSpans}

\* page widths and heights of the calls that never project a box (no box, or
\* one): a negative extent, zero, and the extent of the other calls
PageExtents == {-1, 0, PageW}

InitCalls ==
    /\ boxes \in UNION {[1..n -> CoverBoxes] : n \in 0..MaxBoxes} \cup [1..1 -> SingleBoxes]
    /\ pageWidth \in (IF Len(boxes) <= 1 THEN PageExtents ELSE {PageW})
    /\ pageHeight \in (IF Len(boxes) <= 1 THEN PageExtents ELSE {PageH})
    /\ config = NoConfig
    /\ pc = "input"
    /\ result = <<>>
    /\ detected = "NONE"
    /\ values = <<>>
    /\ splitMinValue = 0
    /\ splitMinGap = 0
    /\ segments = <<>>
    /\ NoCalls
    /\ NoPipeline
    /\ NoProject
    /\ NoServer
    /\ NoDocument

\* the procedure xycutPlusSort calls for a direction
CutProcedure(d) == IF d = "HORIZONTAL" THEN "recursiveXYCut" ELSE "recursiveYXCut"

\* Enter with the test for an empty box list inverted
Enter_EmptyCheckInverted(cfg) ==
    /\ pc = "input"
    /\ config' = cfg
    /\ result' = <<>>
    /\ IF Len(boxes) # 0
       THEN /\ pc' = "sorted"
            /\ UNCHANGED <<dir, stack, procs, detectedOn>>
       ELSE /\ dir' = ResolveDirection(boxes, cfg)
            /\ detectedOn' = IF cfg.direction = "AUTO" THEN <<boxes>> ELSE <<>>
            /\ stack' = <<Iota(Len(boxes))>>
            /\ procs' = <<CutProcedure(dir')>>
            /\ pc' = "running"
    /\ UNCHANGED <<boxes, pageWidth, pageHeight, detected, values, splitMinValue,
                   splitMinGap, segments, cutOf, groups, called>>
    /\ UNCHANGED pipelineVars
    /\ UNCHANGED projectVars
    /\ UNCHANGED serverVars
    /\ UNCHANGED documentVars

\* xycutPlusSort up to its first recursive call
Enter(cfg) ==
    /\ pc = "input"
    /\ config' = cfg
    /\ result' = <<>>
    /\ IF Len(boxes) = 0
       THEN /\ pc' = "sorted"
            /\ UNCHANGED <<dir, stack, procs, detectedOn>>
       ELSE /\ dir' = ResolveDirection(boxes, cfg)
            /\ detectedOn' = IF cfg.direction = "AUTO" THEN <<boxes>> ELSE <<>>
            /\ stack' = <<Iota(Len(boxes))>>
            /\ procs' = <<CutProcedure(dir')>>
            /\ pc' = "running"
    /\ UNCHANGED <<boxes, pageWidth, pageHeight, detected, values, splitMinValue,
                   splitMinGap, segments, cutOf, groups, called>>
    /\ UNCHANGED pipelineVars
    /\ UNCHANGED projectVars
    /\ UNCHANGED serverVars
    /\ UNCHANGED documentVars

\* the axis the next pending call tries first: X in recursiveXYCut, Y in
\* recursiveYXCut
FirstAxis == IF Head(procs) = "recursiveXYCut" THEN 0 ELSE 1

\* the next pending call, as it is recorded in called
HeadCall == <<Head(procs), Head(stack)>>

\* the segments of a call on indices along an axis
SegmentsOn(indices, axis) ==
    CutSegments(boxes, indices, axis, IF axis = 0 THEN pageWidth ELSE pageHeight, config)

\* the axis a call on indices splits on, or -1 when neither axis splits
CutAxis(indices) ==
    IF Len(SegmentsOn(indices, FirstAxis)) > 1 THEN FirstAxis
    ELSE IF Len(SegmentsOn(indices, 1 - FirstAxis)) > 1 THEN 1 - FirstAxis
    ELSE -1

\* a call with no indices returns at once
CallEmpty ==
    /\ pc = "running"
    /\ stack # <<>>
    /\ Len(Head(stack)) = 0
    /\ stack' = Tail(stack)
    /\ procs' = Tail(procs)
    /\ called' = Append(called, HeadCall)
    /\ UNCHANGED <<boxes, pageWidth, pageHeight, config, pc, result, detected, values,
                   splitMinValue, splitMinGap, segments, dir, cutOf, groups, detectedOn>>
    /\ UNCHANGED pipelineVars
    /\ UNCHANGED projectVars
    /\ UNCHANGED serverVars
    /\ UNCHANGED documentVars

\* CallSingle without the push_back: the call returns and appends nothing
CallSingle_AppendsNothing ==
    /\ pc = "running"
    /\ stack # <<>>
    /\ Len(Head(stack)) = 1
    /\ stack' = Tail(stack)
    /\ procs' = Tail(procs)
    /\ called' = Append(called, HeadCall)
    /\ UNCHANGED <<boxes, pageWidth, pageHeight, config, pc, result, detected, values,
                   splitMinValue, splitMinGap, segments, dir, cutOf, groups, detectedOn>>
    /\ UNCHANGED pipelineVars
    /\ UNCHANGED projectVars
    /\ UNCHANGED serverVars
    /\ UNCHANGED documentVars

\* a call with one index appends it to result
CallSingle ==
    /\ pc = "running"
    /\ stack # <<>>
    /\ Len(Head(stack)) = 1
    /\ result' = Append(result, Head(stack)[1])
    /\ stack' = Tail(stack)
    /\ procs' = Tail(procs)
    /\ called' = Append(called, HeadCall)
    /\ UNCHANGED <<boxes, pageWidth, pageHeight, config, pc, detected, values,
                   splitMinValue, splitMinGap, segments, dir, cutOf, groups, detectedOn>>
    /\ UNCHANGED pipelineVars
    /\ UNCHANGED projectVars
    /\ UNCHANGED serverVars
    /\ UNCHANGED documentVars

\* CallSplit with the direction detected anew for each group: the recursive
\* call is recursiveXYCut or recursiveYXCut by the boxes of the group
CallSplit_DetectsPerGroup ==
    /\ pc = "running"
    /\ stack # <<>>
    /\ Len(Head(stack)) > 1
    /\ CutAxis(Head(stack)) # -1
    /\ LET indices == Head(stack)
           axis == CutAxis(indices)
           segs == SegmentsOn(indices, axis)
       IN /\ cutOf' = indices
          /\ groups' = [s \in 1..Len(segs) |-> Group(boxes, indices, axis, segs[s])]
          /\ stack' = groups' \o Tail(stack)
          /\ procs' = [s \in 1..Len(segs) |->
                           CutProcedure(detectTextDirection(SubBoxes(boxes, groups'[s])))]
                       \o Tail(procs)
    /\ called' = Append(called, HeadCall)
    /\ UNCHANGED <<boxes, pageWidth, pageHeight, config, pc, result, detected, values,
                   splitMinValue, splitMinGap, segments, dir, detectedOn>>
    /\ UNCHANGED pipelineVars
    /\ UNCHANGED projectVars
    /\ UNCHANGED serverVars
    /\ UNCHANGED documentVars

\* a call that splits on an axis makes one recursive call per segment, each
\* of the procedure it is itself
CallSplit ==
    /\ pc = "running"
    /\ stack # <<>>
    /\ Len(Head(stack)) > 1
    /\ CutAxis(Head(stack)) # -1
    /\ LET indices == Head(stack)
           axis == CutAxis(indices)
           segs == SegmentsOn(indices, axis)
       IN /\ cutOf' = indices
          /\ groups' = [s \in 1..Len(segs) |-> Group(boxes, indices, axis, segs[s])]
          /\ stack' = groups' \o Tail(stack)
          /\ procs' = [s \in 1..Len(segs) |-> Head(procs)] \o Tail(procs)
    /\ called' = Append(called, HeadCall)
    /\ UNCHANGED <<boxes, pageWidth, pageHeight, config, pc, result, detected, values,
                   splitMinValue, splitMinGap, segments, dir, detectedOn>>
    /\ UNCHANGED pipelineVars
    /\ UNCHANGED projectVars
    /\ UNCHANGED serverVars
    /\ UNCHANGED documentVars

\* a call that does not split sorts its indices and appends them to result
CallLeaf ==
    /\ pc = "running"
    /\ stack # <<>>
    /\ Len(Head(stack)) > 1
    /\ CutAxis(Head(stack)) = -1
    /\ LET indices == Head(stack)
           less == {ab \in Range(indices) \X Range(indices) :
                        IF Head(procs) = "recursiveXYCut" THEN LessXY(boxes, ab[1], ab[2])
                        ELSE LessYX(boxes, ab[1], ab[2])}
       IN \E sorted \in SortOutcomes(indices, less) : result' = result \o sorted
    /\ stack' = Tail(stack)
    /\ procs' = Tail(procs)
    /\ called' = Append(called, HeadCall)
    /\ UNCHANGED <<boxes, pageWidth, pageHeight, config, pc, detected, values,
                   splitMinValue, splitMinGap, segments, dir, cutOf, groups, detectedOn>>
    /\ UNCHANGED pipelineVars
    /\ UNCHANGED projectVars
    /\ UNCHANGED serverVars
    /\ UNCHANGED documentVars

\* xycutPlusSort returns result when the outermost call has returned
Return ==
    /\ pc = "running"
    /\ stack = <<>>
    /\ pc' = "sorted"
    /\ UNCHANGED <<boxes, pageWidth, pageHeight, config, result, detected, values,
                   splitMinValue, splitMinGap, segments, dir, stack, cutOf, groups,
                   procs, called, detectedOn>>
    /\ UNCHANGED pipelineVars
    /\ UNCHANGED projectVars
    /\ UNCHANGED serverVars
    /\ UNCHANGED documentVars

NextCalls ==
    \/ \E cfg \in Configs : Enter(cfg)
    \/ CallEmpty
    \/ CallSingle
    \/ CallSplit
    \/ CallLeaf
    \/ Return

SpecCalls == InitCalls /\ [][NextCalls]_vars

\* the call made step by step returns what xycutPlusSort may return
CallsAgreeWithSort ==
    pc = "sorted" => result \in xycutPlusSort(boxes, pageWidth, pageHeight, config)

-----------------------------------------------------------------------------
(* The reading order step of DocPipeline::processPage *)

\* XYCutConfig as xycutPlusSort takes it when none is given
DefaultConfig == [direction |-> "AUTO", minGapRatio |-> <<1, 20>>, minValueRatio |-> 0]

\* the elements of a page before the step, one per layout box: text stands
\* for the content of the element and tells the elements apart
PageElements(bl) ==
    [i \in DOMAIN bl |-> [text |-> i - 1, layoutBox |-> bl[i], readingOrder |-> 0]]

InitPage ==
    /\ elements \in {PageElements(bl) : bl \in BoxLists}
    /\ boxes = <<>>
    /\ pageWidth = PageW
    /\ pageHeight = PageH
    /\ config = NoConfig
    /\ pc = "input"
    /\ result = <<>>
    /\ detected = "NONE"
    /\ values = <<>>
    /\ splitMinValue = 0
    /\ splitMinGap = 0
    /\ segments = <<>>
    /\ NoCalls
    /\ NoProject
    /\ NoServer
    /\ NoDocument

\* Step 3 of processPage, with config_.stages.enableReadingOrder as given
ReadingOrderStep(enableReadingOrder) ==
    /\ pc = "input"
    /\ IF enableReadingOrder /\ elements # <<>>
       THEN /\ boxes' = [i \in DOMAIN elements |-> elements[i].layoutBox]
            /\ config' = DefaultConfig
            /\ \E sortedIndices \in xycutPlusSort(boxes', pageWidth, pageHeight, DefaultConfig) :
                  /\ result' = sortedIndices
                  /\ elements' = [i \in 1..Len(sortedIndices) |->
                                     [elements[sortedIndices[i] + 1] EXCEPT !.readingOrder = i - 1]]
            /\ pc' = "reordered"
       ELSE /\ pc' = "notReordered"
            /\ UNCHANGED <<boxes, config, result, elements>>
    /\ UNCHANGED <<pageWidth, pageHeight, detected, values, splitMinValue, splitMinGap, segments>>
    /\ UNCHANGED callVars
    /\ UNCHANGED projectVars
    /\ UNCHANGED serverVars
    /\ UNCHANGED documentVars

NextPage == \E enableReadingOrder \in BOOLEAN : ReadingOrderStep(enableReadingOrder)

SpecPage == InitPage /\ [][NextPage]_vars

-----------------------------------------------------------------------------
(* Calls of projectionByBboxes on boxes within, across and outside the page *)

\* Spans [lo, hi] of a box on one axis, in half pixels: those of Spans,
\* <<-6, -2>> (-3.0 to -1.0, wholly before the page) and <<12, 14>> (6.0 to
\* 7.0, wholly behind it)
ProjectSpans == <<<<0, 2>>, <<3, 3>>, <<4, 8>>, <<3, 11>>, <<-3, 2>>, <<-6, -2>>, <<12, 14>>>>

\* one box per span on X, with the next span of the list on Y
ProjectBoxes ==
    {[x0 |-> ProjectSpans[k][1], x1 |-> ProjectSpans[k][2],
      y0 |-> ProjectSpans[(k % Len(ProjectSpans)) + 1][1],
      y1 |-> ProjectSpans[(k % Len(ProjectSpans)) + 1][2]] : k \in DOMAIN ProjectSpans}

\* sizes of the histogram: none, two pixels, the page extent of the other calls
ProjectWidths == {0, 2, PageW}

ProjectHeights == {0, 2, PageH}

InitProject ==
    /\ boxes \in UNION {[1..n -> ProjectBoxes] : n \in 0..MaxBoxes}
    /\ pageWidth \in ProjectWidths
    /\ pageHeight \in ProjectHeights
    /\ config = NoConfig
    /\ pc = "input"
    /\ result = <<>>
    /\ detected = "NONE"
    /\ values = <<>>
    /\ splitMinValue = 0
    /\ splitMinGap = 0
    /\ segments = <<>>
    /\ NoCalls
    /\ NoPipeline
    /\ NoProject
    /\ NoServer
    /\ NoDocument

\* a call of projectionByBboxes(boxes, axis, size), size the page extent on
\* the axis as the cuts pass it
Project(axis) ==
    /\ pc = "input"
    /\ LET size == IF axis = 0 THEN pageWidth ELSE pageHeight
       IN /\ values' = projectionByBboxes(boxes, axis, size)
          /\ written' = ProjWrites(boxes, axis, size)
    /\ pc' = IF axis = 0 THEN "projectedX" ELSE "projectedY"
    /\ UNCHANGED <<boxes, pageWidth, pageHeight, config, result, detected,
                   splitMinValue, splitMinGap, segments>>
    /\ UNCHANGED callVars
    /\ UNCHANGED pipelineVars
    /\ UNCHANGED serverVars
    /\ UNCHANGED documentVars

NextProject == \E axis \in {0, 1} : Project(axis)

SpecProject == InitProject /\ [][NextProject]_vars

-----------------------------------------------------------------------------
(* DocServer: the handlers of POST /process and POST /process/base64, each  *)
(* run by a worker thread of the Crow application.  A step is one access to *)
(* a counter or to the upload directory, with the handler's own work before *)
(* it.  The bytes of a request are told apart by the request.               *)

\* number of requests sent to the server
MaxRequests == 3

\* ServerConfig::numWorkers of the model: the handlers that run at a time
NumWorkers == 2

Requests == 1..MaxRequests

\* names a file part can carry; a part without a name is upload.pdf
Filenames == {"upload.pdf", "a.pdf"}

Routes == {"/process", "/process/base64"}

\* a request that has not been received
NoRequest ==
    [at |-> "idle", route |-> "/process", wellFormed |-> TRUE,
     filename |-> "upload.pdf", read |-> {}]

\* the requests a handler is running for
InFlight == {r \in Requests : reqs[r].at \notin {"idle", "done"}}

InitServer ==
    /\ requestCount = 0
    /\ successCount = 0
    /\ errorCount = 0
    /\ reqs = [r \in Requests |-> NoRequest]
    /\ files = [f \in Filenames |-> {}]
    /\ boxes = <<>>
    /\ pageWidth = PageW
    /\ pageHeight = PageH
    /\ config = NoConfig
    /\ pc = "input"
    /\ result = <<>>
    /\ detected = "NONE"
    /\ values = <<>>
    /\ splitMinValue = 0
    /\ splitMinGap = 0
    /\ segments = <<>>
    /\ NoCalls
    /\ NoPipeline
    /\ NoProject
    /\ NoDocument

\* what no step of a handler changes
ServerFrame ==
    /\ UNCHANGED xycutVars
    /\ UNCHANGED callVars
    /\ UNCHANGED pipelineVars
    /\ UNCHANGED projectVars
    /\ UNCHANGED documentVars

\* a worker takes the request and its handler starts: requestCount_++.
\* wellFormed: the request passes the checks of the handler (multipart with a
\* file part; JSON with base64 data that is not empty)
Receive(r, route, wellFormed, filename) ==
    /\ reqs[r].at = "idle"
    /\ Cardinality(InFlight) < NumWorkers
    /\ requestCount' = requestCount + 1
    /\ reqs' = [reqs EXCEPT ![r] = [at |-> "counted", route |-> route,
                                    wellFormed |-> wellFormed,
                                    filename |-> filename, read |-> {}]]
    /\ UNCHANGED <<successCount, errorCount, files>>
    /\ ServerFrame

\* a check of the handler fails (response 400), or reading the request throws
\* (response 500): errorCount_++
Reject(r) ==
    /\ reqs[r].at = "counted"
    /\ ~reqs[r].wellFormed
    /\ errorCount' = errorCount + 1
    /\ reqs' = [reqs EXCEPT ![r].at = "done"]
    /\ UNCHANGED <<requestCount, successCount, files>>
    /\ ServerFrame

\* handleProcess writes the bytes of the request to uploadDir/filename
WriteTemp(r) ==
    /\ reqs[r].at = "counted"
    /\ reqs[r].wellFormed
    /\ reqs[r].route = "/process"
    /\ files' = [files EXCEPT ![reqs[r].filename] = {r}]
    /\ reqs' = [reqs EXCEPT ![r].at = "written"]
    /\ UNCHANGED <<requestCount, successCount, errorCount>>
    /\ ServerFrame

\* handleProcess calls processPdf(tempPath), which reads the file that is at
\* the path now; the call returns or throws
ProcessTemp(r, throws) ==
    /\ reqs[r].at = "written"
    /\ reqs' = [reqs EXCEPT ![r].read = files[reqs[r].filename],
                            ![r].at = IF throws THEN "done" ELSE "processed"]
    /\ errorCount' = IF throws THEN errorCount + 1 ELSE errorCount
    /\ UNCHANGED <<requestCount, successCount, files>>
    /\ ServerFrame

\* handleProcess removes uploadDir/filename
RemoveTemp(r) ==
    /\ reqs[r].at = "processed"
    /\ reqs[r].route = "/process"
    /\ files' = [files EXCEPT ![reqs[r].filename] = {}]
    /\ reqs' = [reqs EXCEPT ![r].at = "removed"]
    /\ UNCHANGED <<requestCount, successCount, errorCount>>
    /\ ServerFrame

\* the handler of /process/base64 decodes the data and calls
\* processPdfFromMemory; reading the body, the call or the parse of the
\* content list throws, or the response JSON is built
ProcessMemory(r, throws) ==
    /\ reqs[r].at = "counted"
    /\ reqs[r].wellFormed
    /\ reqs[r].route = "/process/base64"
    /\ reqs' = [reqs EXCEPT ![r].at = IF throws THEN "done" ELSE "removed"]
    /\ errorCount' = IF throws THEN errorCount + 1 ELSE errorCount
    /\ UNCHANGED <<requestCount, successCount, files>>
    /\ ServerFrame

\* Respond without successCount_++
Respond_NotCounted(r, throws) ==
    /\ reqs[r].at = "removed"
    /\ ~(throws /\ reqs[r].route = "/process/base64")
    /\ reqs' = [reqs EXCEPT ![r].at = "done"]
    /\ errorCount' = IF throws THEN errorCount + 1 ELSE errorCount
    /\ UNCHANGED <<requestCount, successCount, files>>
    /\ ServerFrame

\* the end of a handler.  /process: handleProcess builds its JSON, where the
\* parse of the content list may throw (errorCount_++), and then
\* successCount_++.  /process/base64: successCount_++, the JSON being built.
Respond(r, throws) ==
    /\ reqs[r].at = "removed"
    /\ ~(throws /\ reqs[r].route = "/process/base64")
    /\ reqs' = [reqs EXCEPT ![r].at = "done"]
    /\ successCount' = IF throws THEN successCount ELSE successCount + 1
    /\ errorCount' = IF throws THEN errorCount + 1 ELSE errorCount
    /\ UNCHANGED <<requestCount, files>>
    /\ ServerFrame

NextServer ==
    \E r \in Requests :
        \/ \E route \in Routes, wellFormed \in BOOLEAN, filename \in Filenames :
               Receive(r, route, wellFormed, filename)
        \/ Reject(r)
        \/ WriteTemp(r)
        \/ \E throws \in BOOLEAN : ProcessTemp(r, throws)
        \/ RemoveTemp(r)
        \/ \E throws \in BOOLEAN : ProcessMemory(r, throws)
        \/ \E throws \in BOOLEAN : Respond(r, throws)

SpecServer == InitServer /\ [][NextServer]_vars

-----------------------------------------------------------------------------
(* DocPipeline::processPdf and DocPipeline::processPdfFromMemory on an      *)
(* initialized pipeline.  A page image is given by the regions the layout   *)
(* detector finds on it, each with what the table recognizer makes of it.   *)

\* pages of a PDF
MaxPages == 2

\* layout boxes of a page
MaxRegions == 2

\* what is read of a region: its category (TEXT for the categories of
\* getTextBoxes, EQUATION for the unsupported ones), and for a table the
\* value of estimateTableType on its crop and TableResult::supported
RegionKinds ==
    {[category |-> c, tableType |-> "UNKNOWN", supported |-> FALSE] :
         c \in {"TEXT", "FIGURE", "EQUATION"}}
    \cup {[category |-> "TABLE", tableType |-> "WIRED", supported |-> sp] : sp \in BOOLEAN}
    \cup {[category |-> "TABLE", tableType |-> "WIRELESS", supported |-> FALSE]}

\* layout box i of a page whose boxes lie side by side on the top row, in
\* half pixels
RowBox(i) == [x0 |-> 4 * (i - 1), y0 |-> 0, x1 |-> 4 * (i - 1) + 2, y1 |-> 2]

\* layout box i of a page whose boxes start before the left edge and lie one
\* below the other, 2.5 pixels wide with the center at -0.25
EdgeBox(i) ==
    [x0 |-> -3, y0 |-> IF i = 1 THEN -3 ELSE 4 * (i - 1),
     x1 |-> 2, y1 |-> IF i = 1 THEN 2 ELSE 4 * (i - 1) + 4]

\* the layout boxes of a page
RegionBoxLists ==
    {[i \in 1..MaxRegions |-> RowBox(i)], [i \in 1..MaxRegions |-> EdgeBox(i)]}

\* the pages: up to MaxRegions regions on the boxes of one list
PageImages ==
    {[i \in 1..n |-> [category |-> ks[i].category, tableType |-> ks[i].tableType,
                      supported |-> ks[i].supported, layoutBox |-> bl[i]]] :
         n \in 0..MaxRegions, ks \in [1..MaxRegions -> RegionKinds], bl \in RegionBoxLists}

\* config_.stages and config_.runtime.saveImages as processPage reads them
StageConfigs ==
    [enableOcr : BOOLEAN, enableWiredTable : BOOLEAN, saveImages : BOOLEAN,
     enableReadingOrder : BOOLEAN]

\* ContentElement of a layout box, readingOrder as initialized
ElementOf(type, region, skipped) ==
    [type |-> type, layoutBox |-> region.layoutBox, readingOrder |-> 0, skipped |-> skipped]

\* box.toRect() & cv::Rect(0, 0, image.cols, image.rows) is not empty
RoiNotEmpty(box) ==
    LET x == Trunc(box.x0)
        y == Trunc(box.y0)
        w == Trunc(box.x1 - box.x0)
        h == Trunc(box.y1 - box.y0)
    IN /\ Min(x + w, PageW) - Max(x, 0) > 0
       /\ Min(y + h, PageH) - Max(y, 0) > 0

runOcrOnRegions(regions) ==
    LET textBoxes == SelectSeq(regions, LAMBDA g : g.category = "TEXT")
    IN [i \in DOMAIN textBoxes |-> ElementOf("TEXT", textBoxes[i], FALSE)]

runTableRecognition(regions) ==
    LET tableBoxes == SelectSeq(regions, LAMBDA g : g.category = "TABLE")
    IN [i \in DOMAIN tableBoxes |->
           ElementOf("TABLE", tableBoxes[i],
                     IF tableBoxes[i].tableType = "WIRELESS" THEN TRUE
                     ELSE ~tableBoxes[i].supported)]

\* the elements saveExtractedImages appends
saveExtractedImages(regions) ==
    LET figureBoxes == SelectSeq(regions, LAMBDA g : g.category = "FIGURE" /\ RoiNotEmpty(g.layoutBox))
    IN [i \in DOMAIN figureBoxes |-> ElementOf("IMAGE", figureBoxes[i], FALSE)]

handleUnsupportedElements(regions) ==
    LET unsupportedBoxes == SelectSeq(regions, LAMBDA g : g.category = "EQUATION")
    IN [i \in DOMAIN unsupportedBoxes |-> ElementOf("EQUATION", unsupportedBoxes[i], TRUE)]

\* the elements of a page before the reading order step
CollectElements(regions, stages) ==
    (IF stages.enableOcr THEN runOcrOnRegions(regions) ELSE <<>>)
    \o (IF stages.enableWiredTable THEN runTableRecognition(regions) ELSE <<>>)
    \o (IF stages.saveImages THEN saveExtractedImages(regions) ELSE <<>>)
    \o handleUnsupportedElements(regions)

\* the PageResults processPage may return for a page image
processPage(regions, stages) ==
    LET els == CollectElements(regions, stages)
        sortBoxes == [i \in DOMAIN els |-> els[i].layoutBox]
    IN IF stages.enableReadingOrder /\ els # <<>>
       THEN {[elements |-> [i \in 1..Len(sortedIndices) |->
                               [els[sortedIndices[i] + 1] EXCEPT !.readingOrder = i - 1]]] :
                sortedIndices \in xycutPlusSort(sortBoxes, PageW, PageH, DefaultConfig)}
       ELSE {[elements |-> els]}

\* the page lists the loop over pageImages may leave in result.pages
ProcessedPages(images, stages) ==
    {ps \in [DOMAIN images -> UNION {processPage(images[i], stages) : i \in DOMAIN images}] :
        \A i \in DOMAIN images : ps[i] \in processPage(images[i], stages)}

RECURSIVE CountSkipped(_)
\* the loops over result.pages and page.elements with result.skippedElements++
CountSkipped(pages) ==
    IF pages = <<>> THEN 0
    ELSE Len(SelectSeq(Head(pages).elements, LAMBDA e : e.skipped)) + CountSkipped(Tail(pages))

InitDocument ==
    /\ pageImages \in UNION {[1..n -> PageImages] : n \in 0..MaxPages}
    /\ document = EmptyDocument
    /\ boxes = <<>>
    /\ pageWidth = PageW
    /\ pageHeight = PageH
    /\ config = NoConfig
    /\ pc = "input"
    /\ result = <<>>
    /\ detected = "NONE"
    /\ values = <<>>
    /\ splitMinValue = 0
    /\ splitMinGap = 0
    /\ segments = <<>>
    /\ NoCalls
    /\ NoPipeline
    /\ NoProject
    /\ NoServer

\* what no call on a document changes
DocumentFrame ==
    /\ UNCHANGED <<boxes, pageWidth, pageHeight, config, result, detected, values,
                   splitMinValue, splitMinGap, segments>>
    /\ UNCHANGED callVars
    /\ UNCHANGED pipelineVars
    /\ UNCHANGED projectVars
    /\ UNCHANGED serverVars

\* processPdf on a file that renders to pageImages
processPdf(stages) ==
    /\ pc = "input"
    /\ IF pageImages = <<>>
       THEN document' = EmptyDocument
       ELSE \E pages \in ProcessedPages(pageImages, stages) :
               document' = [pages |-> pages,
                            totalPages |-> Len(pageImages),
                            processedPages |-> Len(pages),
                            skippedElements |-> CountSkipped(pages)]
    /\ pc' = "processPdf"
    /\ UNCHANGED pageImages
    /\ DocumentFrame

\* processPdfFromMemory on bytes that render to pageImages
processPdfFromMemory(stages) ==
    /\ pc = "input"
    /\ \E pages \in ProcessedPages(pageImages, stages) :
          document' = [pages |-> pages,
                       totalPages |-> Len(pageImages),
                       processedPages |-> Len(pages),
                       skippedElements |-> 0]
    /\ pc' = "processPdfFromMemory"
    /\ UNCHANGED pageImages
    /\ DocumentFrame

NextDocument ==
    \E stages \in StageConfigs :
        \/ processPdf(stages)
        \/ processPdfFromMemory(stages)

SpecDocument == InitDocument /\ [][NextDocument]_vars

-----------------------------------------------------------------------------
(* Properties of the calls *)

\* how often index i occurs in r
IndexCount(r, i) == Cardinality({k \in DOMAIN r : r[k] = i})

\* r holds each of 0..n-1 exactly once
IsPermutation(r, n) ==
    Len(r) = n /\ \A i \in 0..(n - 1) : IndexCount(r, i) = 1

\* wherever b is output, a has been output before it
Precedes(r, a, b) ==
    \A j \in DOMAIN r : r[j] = b => \E i \in 1..(j - 1) : r[i] = a

\* the direction the call made in this state ran in
Direction == ResolveDirection(boxes, config)

\* the indices of all boxes, and the segments of the first cut of the call
AllIndices == Iota(Len(boxes))

TopXSegments == CutSegments(boxes, AllIndices, 0, pageWidth, config)

TopYSegments == CutSegments(boxes, AllIndices, 1, pageHeight, config)

\* index a lies in an earlier segment than index b on the axis
InEarlierSegment(a, b, axis, segs) ==
    \E s, t \in DOMAIN segs :
        /\ s < t
        /\ InSegment(boxes[a + 1], axis, segs[s])
        /\ InSegment(boxes[b + 1], axis, segs[t])

\* C1: the sequence returned by xycutPlusSort has the length of the box list
\* and holds each index 0..N-1 exactly once.
C1_OutputIsPermutation ==
    pc = "sorted" => IsPermutation(result, Len(boxes))

\* a box with zero area, or reaching outside the page
ZeroAreaOrOutside(b) ==
    \/ width(b) = 0 \/ height(b) = 0
    \/ b.x0 < 0 \/ b.y0 < 0
    \/ b.x1 > 2 * pageWidth \/ b.y1 > 2 * pageHeight

\* C2: every box that has zero area or lies partly or wholly outside the page
\* has its index exactly once in the output of xycutPlusSort.
C2_DegenerateBoxesKept ==
    pc = "sorted" =>
        \A i \in Range(AllIndices) :
            ZeroAreaOrOutside(boxes[i + 1]) => IndexCount(result, i) = 1

\* C3: in Horizontal mode, when the X-projection of the cut splits into two
\* or more segments, a box whose center lies in a more-left segment is output
\* before every box whose center lies in a more-right segment.
C3_ColumnsLeftToRight ==
    (pc = "sorted" /\ Direction = "HORIZONTAL" /\ Len(TopXSegments) > 1) =>
        \A a, b \in Range(AllIndices) :
            InEarlierSegment(a, b, 0, TopXSegments) => Precedes(result, a, b)

\* C4: in Horizontal mode, when the X-projection of the cut does not split
\* and its Y-projection splits into two or more segments, a box whose center
\* lies in an upper segment is output before every box whose center lies in a
\* lower segment.
C4_RowsTopToBottom ==
    (/\ pc = "sorted" /\ Direction = "HORIZONTAL"
     /\ Len(TopXSegments) <= 1 /\ Len(TopYSegments) > 1) =>
        \A a, b \in Range(AllIndices) :
            InEarlierSegment(a, b, 1, TopYSegments) => Precedes(result, a, b)

\* boxes a and b are on the same line: their vertical centers differ by less
\* than half the smaller height
SameLine(a, b) ==
    Abs(centerY(boxes[a + 1]) - centerY(boxes[b + 1]))
        < Min(height(boxes[a + 1]), height(boxes[b + 1]))

\* C5: for two boxes sorted in Horizontal mode that are on the same line, the
\* box with the smaller horizontal center is the first element of the output,
\* whichever of the two comes first in the input.
C5_SameLineLeftFirst ==
    (pc = "sorted" /\ Direction = "HORIZONTAL" /\ Len(boxes) = 2) =>
        \A a, b \in {0, 1} :
            (SameLine(a, b) /\ centerX(boxes[a + 1]) < centerX(boxes[b + 1]))
                => (Len(result) > 0 /\ result[1] = a)

\* C6: in Vertical mode, when the Y-projection of the cut does not split and
\* the X-projection splits into columns, a box of a more-right column is
\* output before every box of a more-left column.
C6_VerticalColumnsRightToLeft ==
    (/\ pc = "sorted" /\ Direction = "VERTICAL"
     /\ Len(TopYSegments) <= 1 /\ Len(TopXSegments) > 1) =>
        \A a, b \in Range(AllIndices) :
            InEarlierSegment(a, b, 0, TopXSegments) => Precedes(result, b, a)

\* the boxes with positive width and height, and the wide ones among them
ConsideredBoxes == {i \in DOMAIN boxes : width(boxes[i]) > 0 /\ height(boxes[i]) > 0}

WideBoxes == {i \in ConsideredBoxes : 2 * width(boxes[i]) >= 3 * height(boxes[i])}

Rearranged(p) == [i \in DOMAIN boxes |-> boxes[p[i] + 1]]

\* C8: detectTextDirection returns the same direction for every rearrangement
\* of the box list.
C8_DetectOrderIndependent ==
    pc = "detected" =>
        \A p \in Arrangements(AllIndices) :
            detectTextDirection(Rearranged(p)) = detected

\* three boxes, the first wide and the others not, found VERTICAL
C8_Witness ==
    /\ pc = "detected"
    /\ Len(boxes) = 3
    /\ WideBoxes = {1}
    /\ ConsideredBoxes = {1, 2, 3}
    /\ detected = "VERTICAL"

\* largest offset of a translation, in pixels
MaxShift == 1

\* every box moved by (dx, dy) half pixels
Translate(bs, dx, dy) ==
    [i \in DOMAIN bs |-> [x0 |-> bs[i].x0 + dx, y0 |-> bs[i].y0 + dy,
                          x1 |-> bs[i].x1 + dx, y1 |-> bs[i].y1 + dy]]

\* offsets in half pixels, and those that are a whole number of pixels
Offsets == (-2 * MaxShift)..(2 * MaxShift)

WholePixelOffsets == {2 * k : k \in (-MaxShift)..MaxShift}

\* every sequence the call may return for bs holds every index once
NothingDropped(bs) ==
    \A r \in xycutPlusSort(bs, pageWidth, pageHeight, config) : IsPermutation(r, Len(bs))

AllWithinPage(bs) == \A i \in DOMAIN bs : BoxWithinPage(bs[i], pageWidth, pageHeight)

SegmentCount(g) == Len(splitProjectionProfile(values, splitMinValue, g))

\* the gap a cut of a page as wide as the histogram takes for a minGapRatio
GapOfRatio(ratio) ==
    MinGap(Cardinality(DOMAIN values), [NoConfig EXCEPT !.minGapRatio = ratio])

\* ratio r1 <= r2, as rationals
RatioLeq(r1, r2) == r1[1] * r2[2] <= r2[1] * r1[2]

\* C10: for a fixed histogram and minValue, a larger minGap never gives more
\* segments; hence a larger minGapRatio never gives more segments in a cut.
C10_GapMonotone ==
    pc = "split" =>
        /\ \A g \in 1..(Cardinality(DOMAIN values) + 1) :
              /\ splitMinGap <= g => SegmentCount(g) <= Len(segments)
              /\ g <= splitMinGap => Len(segments) <= SegmentCount(g)
        /\ \A r1, r2 \in GapRatios :
              RatioLeq(r1, r2) =>
                  SegmentCount(GapOfRatio(r2)) <= SegmentCount(GapOfRatio(r1))

\* two segments with minGap 1 that minGap 2 merges into one, and that the
\* ratio 0.5 merges while the ratio 0.05 does not
C10_Witness ==
    /\ pc = "split"
    /\ splitMinGap = 1
    /\ Len(segments) = 2
    /\ SegmentCount(2) = 1
    /\ SegmentCount(GapOfRatio(<<1, 20>>)) = 2
    /\ SegmentCount(GapOfRatio(<<1, 2>>)) = 1

\* the index sequences recursiveXYCut hands to std::sort in a call on indices
RECURSIVE LeafClustersXY(_, _, _, _, _)
LeafClustersXY(bs, indices, pw, ph, cfg) ==
    IF Len(indices) <= 1 THEN {}
    ELSE
      LET xSegments == CutSegments(bs, indices, 0, pw, cfg)
      IN IF Len(xSegments) > 1
         THEN UNION {LeafClustersXY(bs, Group(bs, indices, 0, xSegments[s]), pw, ph, cfg) :
                         s \in DOMAIN xSegments}
         ELSE
           LET ySegments == CutSegments(bs, indices, 1, ph, cfg)
           IN IF Len(ySegments) > 1
              THEN UNION {LeafClustersXY(bs, Group(bs, indices, 1, ySegments[s]), pw, ph, cfg) :
                              s \in DOMAIN ySegments}
              ELSE {indices}

\* the index sequences recursiveYXCut hands to std::sort in a call on indices
RECURSIVE LeafClustersYX(_, _, _, _, _)
LeafClustersYX(bs, indices, pw, ph, cfg) ==
    IF Len(indices) <= 1 THEN {}
    ELSE
      LET ySegments == CutSegments(bs, indices, 1, ph, cfg)
      IN IF Len(ySegments) > 1
         THEN UNION {LeafClustersYX(bs, Group(bs, indices, 1, ySegments[s]), pw, ph, cfg) :
                         s \in DOMAIN ySegments}
         ELSE
           LET xSegments == CutSegments(bs, indices, 0, pw, cfg)
           IN IF Len(xSegments) > 1
              THEN UNION {LeafClustersYX(bs, Group(bs, indices, 0, xSegments[s]), pw, ph, cfg) :
                              s \in DOMAIN xSegments}
              ELSE {indices}

\* the leaf clusters of the call made in this state
LeafClusters ==
    IF Direction = "HORIZONTAL"
    THEN LeafClustersXY(boxes, AllIndices, pageWidth, pageHeight, config)
    ELSE LeafClustersYX(boxes, AllIndices, pageWidth, pageHeight, config)

\* the leaf comparator of the call made in this state
Less(a, b) ==
    IF Direction = "HORIZONTAL" THEN LessXY(boxes, a, b) ELSE LessYX(boxes, a, b)

\* C11: on every leaf cluster the leaf comparator is a total order: it is
\* irreflexive, asymmetric and transitive, and it orders any two boxes of
\* different geometry, so that the leaf sequence is fixed by the geometry.
C11_LeafComparatorTotalOrder ==
    pc = "sorted" =>
        \A leaf \in LeafClusters :
            /\ \A a \in Range(leaf) : ~Less(a, a)
            /\ \A a, b \in Range(leaf) : Less(a, b) => ~Less(b, a)
            /\ \A a, b, c \in Range(leaf) : (Less(a, b) /\ Less(b, c)) => Less(a, c)
            /\ \A a, b \in Range(leaf) :
                  boxes[a + 1] # boxes[b + 1] => (Less(a, b) \/ Less(b, a))

\* boxes a and b have exactly equal centers
EqualCenters(a, b) ==
    /\ centerX(boxes[a + 1]) = centerX(boxes[b + 1])
    /\ centerY(boxes[a + 1]) = centerY(boxes[b + 1])

\* C12: when two boxes of a leaf cluster have exactly equal centers, the one
\* with the smaller input index is output first, in Horizontal and in Vertical
\* mode.
C12_EqualCentersByInputIndex ==
    pc = "sorted" =>
        \A leaf \in LeafClusters :
            \A a, b \in Range(leaf) :
                (a < b /\ EqualCenters(a, b)) =>
                    (Precedes(result, a, b) /\ ~Precedes(result, b, a))

\* values of the LayoutBox fields other than the coordinates: category (as
\* its name), confidence (in tenths) and index
OtherFields ==
    {[category |-> "TEXT", confidence |-> 10, index |-> 0],
     [category |-> "TABLE", confidence |-> 5, index |-> 7]}

\* the box list with the same coordinates position by position and the other
\* fields as f gives them
WithFields(bs, f) ==
    [i \in DOMAIN bs |->
        [x0 |-> bs[i].x0, y0 |-> bs[i].y0, x1 |-> bs[i].x1, y1 |-> bs[i].y1,
         category |-> f[i].category, confidence |-> f[i].confidence, index |-> f[i].index]]

\* in every leaf cluster of the call the comparator orders any two boxes
NoTies ==
    \A leaf \in LeafClusters :
        \A a, b \in Range(leaf) : a # b => (Less(a, b) \/ Less(b, a))

FieldsNotRead ==
    pc = "sorted" =>
        \A f \in [DOMAIN boxes -> OtherFields] :
            xycutPlusSort(WithFields(boxes, f), pageWidth, pageHeight, config)
                = xycutPlusSort(boxes, pageWidth, pageHeight, config)

\* the boxes of bs in the order r puts them, each given by its geometry
InReadingOrder(bs, r) == [k \in DOMAIN r |-> bs[r[k] + 1]]

\* C14: for every rearrangement of the input vector, xycutPlusSort puts the
\* boxes, identified by their geometry, in the same reading order.
C14_InputOrderIrrelevant ==
    pc = "sorted" =>
        \A p \in Arrangements(AllIndices) :
            \A r \in xycutPlusSort(Rearranged(p), pageWidth, pageHeight, config) :
                InReadingOrder(Rearranged(p), r) = InReadingOrder(boxes, result)

\* C15: whenever a cut finds two or more segments, every group handed to a
\* recursive call holds strictly fewer indices than the caller's index vector,
\* for every minGapRatio and minValueRatio of the calls (minValueRatio 1.0
\* among them); so the calls come to an end.
C15_GroupsStrictlySmaller ==
    \A g \in DOMAIN groups : Len(groups[g]) < Len(cutOf)

\* a cut of three boxes with minValue 1, where a pixel counts as occupied
\* under two boxes, into a group of one and a group of two
C15_Witness ==
    /\ pc = "running"
    /\ MinVal(config) = 1
    /\ Len(cutOf) = 3
    /\ Len(groups) = 2
    /\ Len(groups[1]) = 1
    /\ Len(groups[2]) = 2

\* C16: xycutPlusSort on an empty box list returns the empty sequence, at
\* once, for every page extent and config.
C16_EmptyInputEmptyResult ==
    (Len(boxes) = 0 /\ pc # "input") => (pc = "sorted" /\ result = <<>> /\ stack = <<>>)

\* the call on no boxes and a page of no width, in Vertical mode
C16_Witness ==
    /\ Len(boxes) = 0
    /\ pc = "sorted"
    /\ pageWidth = 0
    /\ config.direction = "VERTICAL"
    /\ result = <<>>

\* C17: xycutPlusSort on a single box returns [0], for any geometry of the
\* box and every direction setting.
C17_SingleBoxFirst ==
    (Len(boxes) = 1 /\ pc = "sorted") => result = <<0>>

\* a box of zero width wholly outside the page, sorted with direction AUTO
C17_Witness ==
    /\ Len(boxes) = 1
    /\ pc = "sorted"
    /\ config.direction = "AUTO"
    /\ width(boxes[1]) = 0
    /\ pageHeight = PageH
    /\ boxes[1].y0 >= 2 * pageHeight
    /\ result = <<0>>

Occupied(i) == values[i] > splitMinValue

\* number of pixels of the histogram of this state
Size == Cardinality(DOMAIN values)

\* there is a run of splitMinGap unoccupied pixels strictly between i and j
GapBetween(i, j) ==
    \E a \in (i + 1)..(j - splitMinGap) :
        \A t \in a..(a + splitMinGap - 1) : ~Occupied(t)

\* C19: the segments returned by splitProjectionProfile are in ascending
\* order and pairwise disjoint and each starts on an occupied pixel; for two
\* consecutive segments (s1,e1), (s2,e2) pixel e1-1 is occupied, every pixel
\* of [e1, s2) is unoccupied and s2 - e1 >= minGap; and two occupied pixels
\* separated only by unoccupied runs shorter than minGap lie in one segment.
C19_SegmentStructure ==
    pc = "split" =>
        /\ \A k \in DOMAIN segments :
              /\ 0 <= segments[k][1] /\ segments[k][1] < segments[k][2]
              /\ segments[k][2] <= Size
              /\ Occupied(segments[k][1])
        /\ \A k \in 1..(Len(segments) - 1) :
              LET e1 == segments[k][2]
                  s2 == segments[k + 1][1]
              IN /\ e1 <= s2
                 /\ Occupied(e1 - 1)
                 /\ \A i \in e1..(s2 - 1) : ~Occupied(i)
                 /\ s2 - e1 >= splitMinGap
        /\ \A i, j \in DOMAIN values :
              (i <= j /\ Occupied(i) /\ Occupied(j) /\ ~GapBetween(i, j)) =>
                  \E k \in DOMAIN segments : segments[k][1] <= i /\ j < segments[k][2]

\* with minGap 2 and minValue 1: two segments, and in the gap between them a
\* pixel under one box, which is not occupied
C19_Witness ==
    /\ pc = "split"
    /\ splitMinGap = 2
    /\ splitMinValue = 1
    /\ Len(segments) = 2
    /\ \E i \in segments[1][2]..(segments[2][1] - 1) : values[i] = 1

\* C20 as claimed: every segment (start, end) returned by
\* splitProjectionProfile ends on an occupied pixel, values[end-1] > minValue,
\* the last segment included.
C20_SegmentsEndOccupied ==
    pc = "split" => \A k \in DOMAIN segments : Occupied(segments[k][2] - 1)

\* C20 amended: every segment ends on an occupied pixel, except that the last
\* segment, closed when the scan reaches the end of the histogram, ends at
\* values.size() and may end with fewer than minGap unoccupied pixels.
C20_SegmentsEndOccupiedOrFlushed ==
    pc = "split" =>
        \A k \in DOMAIN segments :
            \/ Occupied(segments[k][2] - 1)
            \/ /\ k = Len(segments)
               /\ segments[k][2] = Size
               /\ \E j \in segments[k][1]..(Size - 1) :
                     /\ Occupied(j)
                     /\ \A t \in (j + 1)..(Size - 1) : ~Occupied(t)
                     /\ Size - 1 - j < splitMinGap

\* two segments, the last one closed at the end of the histogram on an
\* unoccupied pixel
C20_Witness ==
    /\ pc = "split"
    /\ Len(segments) = 2
    /\ segments[2][2] = Size
    /\ ~Occupied(Size - 1)

\* C21: splitProjectionProfile returns no segment exactly when no value of the
\* histogram is strictly greater than minValue (an empty or all-zero histogram
\* among them), and at least one segment otherwise.
C21_NoSegmentsIffNothingOccupied ==
    pc = "split" =>
        (Len(segments) = 0 <=> \A i \in DOMAIN values : ~Occupied(i))

\* a histogram with a pixel under boxes, none above minValue: no segment
C21_Witness ==
    /\ pc = "split"
    /\ Size > 0
    /\ \E i \in DOMAIN values : values[i] > 0
    /\ \A i \in DOMAIN values : values[i] <= splitMinValue
    /\ segments = <<>>

\* the axis and the size of the call of projectionByBboxes made in this state
ProjectedAxis == IF pc = "projectedX" THEN 0 ELSE 1

ProjectedSize == IF pc = "projectedX" THEN pageWidth ELSE pageHeight

\* trunc(lo_b) and trunc(hi_b) of box k on the projected axis
TruncLo(k) == IF ProjectedAxis = 0 THEN Trunc(boxes[k].x0) ELSE Trunc(boxes[k].y0)

TruncHi(k) == IF ProjectedAxis = 0 THEN Trunc(boxes[k].x1) ELSE Trunc(boxes[k].y1)

\* C22: projectionByBboxes(boxes, axis, size) returns an array of exactly size
\* cells; cell i is the number of boxes b with
\* max(0, trunc(lo_b)) <= i < min(size, trunc(hi_b)); and no cell outside the
\* array is written, also for boxes reaching past or lying outside [0, size).
C22_ProjectionCountsClipped ==
    pc \in {"projectedX", "projectedY"} =>
        /\ DOMAIN values = 0..(ProjectedSize - 1)
        /\ \A i \in 0..(ProjectedSize - 1) :
              values[i] = Cardinality({k \in DOMAIN boxes :
                              /\ Max(0, TruncLo(k)) <= i
                              /\ i < Min(ProjectedSize, TruncHi(k))})
        /\ written \subseteq 0..(ProjectedSize - 1)

\* a histogram of two cells for three boxes: one wholly before the page, two
\* reaching past cell 1, which holds 2
C22_Witness ==
    /\ pc = "projectedX"
    /\ pageWidth = 2
    /\ Len(boxes) = 3
    /\ \E k \in DOMAIN boxes : TruncHi(k) < 0
    /\ \E k \in DOMAIN boxes : TruncLo(k) < 2 /\ TruncHi(k) > 2
    /\ values[1] = 2
    /\ written = {1}

\* C23: the direction is resolved once per call of xycutPlusSort:
\* detectTextDirection is consulted only when config.direction is AUTO, and
\* only on the full box list; an explicit HORIZONTAL or VERTICAL is used as
\* given; and the cut procedure chosen at the top is the procedure of every
\* recursive call, also on a group whose own boxes would be detected as the
\* other direction.
C23_DirectionResolvedOnce ==
    pc \in {"running", "sorted"} =>
        /\ detectedOn = IF Len(boxes) > 0 /\ config.direction = "AUTO" THEN <<boxes>> ELSE <<>>
        /\ Len(boxes) > 0 =>
              /\ config.direction = "AUTO" => dir = detectTextDirection(boxes)
              /\ config.direction # "AUTO" => dir = config.direction
              /\ \A k \in DOMAIN procs : procs[k] = CutProcedure(dir)
              /\ \A k \in DOMAIN called : called[k][1] = CutProcedure(dir)

\* a call with direction AUTO found VERTICAL in which recursiveYXCut has been
\* called on a group of two boxes that alone are detected HORIZONTAL
C23_Witness ==
    /\ pc = "sorted"
    /\ config.direction = "AUTO"
    /\ dir = "VERTICAL"
    /\ \E k \in DOMAIN called :
          /\ called[k][1] = "recursiveYXCut"
          /\ Len(called[k][2]) = 2
          /\ detectTextDirection(SubBoxes(boxes, called[k][2])) = "HORIZONTAL"

\* C24: in Vertical mode the Y split is tried before the X split: when the
\* Y-projection of the cut has two or more segments, every box whose vertical
\* center lies in an upper segment is output before every box whose vertical
\* center lies in a lower segment, also when the boxes form columns apart on
\* the X axis.
C24_VerticalRowsBeforeColumns ==
    (pc = "sorted" /\ Direction = "VERTICAL" /\ Len(TopYSegments) > 1) =>
        \A a, b \in Range(AllIndices) :
            InEarlierSegment(a, b, 1, TopYSegments) => Precedes(result, a, b)

\* a and b are each output once, a before b
OutputBefore(r, a, b) ==
    /\ IndexCount(r, a) = 1
    /\ IndexCount(r, b) = 1
    /\ \E i, j \in DOMAIN r : i < j /\ r[i] = a /\ r[j] = b

\* the horizontal centers of a and b differ by less than half the smaller width
SameColumn(a, b) ==
    Abs(centerX(boxes[a + 1]) - centerX(boxes[b + 1]))
        < Min(width(boxes[a + 1]), width(boxes[b + 1]))

\* C25: in Vertical mode, for a leaf cluster of two boxes: if their horizontal
\* centers differ by less than half the smaller width, the box with the
\* smaller vertical center is output first; otherwise the box with the larger
\* horizontal center is output first.
C25_VerticalLeafPair ==
    (pc = "sorted" /\ Direction = "VERTICAL") =>
        \A leaf \in LeafClusters :
            Len(leaf) = 2 =>
                \A a, b \in Range(leaf) :
                    /\ (SameColumn(a, b) /\ centerY(boxes[a + 1]) < centerY(boxes[b + 1]))
                          => OutputBefore(result, a, b)
                    /\ (~SameColumn(a, b) /\ centerX(boxes[a + 1]) > centerX(boxes[b + 1]))
                          => OutputBefore(result, a, b)

\* two boxes in one leaf cluster, not in one column: the second of the input
\* is more to the right and lower, and is output first
C25_Witness ==
    /\ pc = "sorted"
    /\ Direction = "VERTICAL"
    /\ Len(boxes) = 2
    /\ LeafClusters = {<<0, 1>>}
    /\ ~SameColumn(0, 1)
    /\ centerX(boxes[2]) > centerX(boxes[1])
    /\ centerY(boxes[2]) > centerY(boxes[1])
    /\ result = <<1, 0>>

\* box i has zero width or zero height
Degenerate(i) == width(boxes[i]) = 0 \/ height(boxes[i]) = 0

\* C26: when every box has zero width or zero height, xycutPlusSort with
\* direction AUTO resolves to Horizontal, neither projection yields a split at
\* any level (the only call that reaches std::sort is the one on all N boxes),
\* and the output is an ordering of all N boxes by the leaf comparator of
\* recursiveXYCut.
C26_AllDegenerateFallThrough ==
    (/\ pc = "sorted" /\ config.direction = "AUTO"
     /\ \A i \in DOMAIN boxes : Degenerate(i)) =>
        /\ Direction = "HORIZONTAL"
        /\ Len(TopXSegments) <= 1 /\ Len(TopYSegments) <= 1
        /\ Len(boxes) >= 2 => LeafClusters = {AllIndices}
        /\ result \in SortOutcomes(AllIndices,
                          {ab \in Range(AllIndices) \X Range(AllIndices) :
                               LessXY(boxes, ab[1], ab[2])})

\* C27: the output of xycutPlusSort never holds an index twice and never a
\* value outside 0..N-1: the groups of a split are pairwise disjoint parts of
\* the caller's indices, and the leaf and base cases append only indices they
\* were given.  It holds in every state of the call, for the result so far.
C27_NoIndexTwiceNoneForeign ==
    /\ \A k \in DOMAIN result : result[k] \in 0..(Len(boxes) - 1)
    /\ \A i \in 0..(Len(boxes) - 1) : IndexCount(result, i) <= 1
    /\ \A g \in DOMAIN groups :
          /\ Range(groups[g]) \subseteq Range(cutOf)
          /\ \A h \in DOMAIN groups : g # h => Range(groups[g]) \cap Range(groups[h]) = {}
    /\ \A k \in DOMAIN stack :
          \A i \in Range(stack[k]) : i \in 0..(Len(boxes) - 1) /\ IndexCount(result, i) = 0

\* a finished call on three boxes with minValue 1: one box lies over the two
\* segments of the split, and one group of two boxes went to the leaf sort
C27_Witness ==
    /\ pc = "sorted"
    /\ MinVal(config) = 1
    /\ cutOf = <<0, 1, 2>>
    /\ Len(groups) = 2
    /\ \E g \in DOMAIN groups : Len(groups[g]) = 2
    /\ IsPermutation(result, 3)

-----------------------------------------------------------------------------
(* Properties of the server *)

\* the requests whose handler has started
Started == {r \in Requests : reqs[r].at # "idle"}

\* the requests whose handler has returned a response
Completed == {r \in Requests : reqs[r].at = "done"}

HasRead ==
    {r \in Requests : /\ reqs[r].route = "/process"
                      /\ reqs[r].wellFormed
                      /\ reqs[r].at \in {"processed", "removed", "done"}}

\* C29: when the processPdf call of a request to /process reads the file at
\* uploadDir/filename, the file is there and holds the bytes of that request.
C29_ReadsOwnBytes ==
    \A r \in HasRead : reqs[r].read = {r}

-----------------------------------------------------------------------------
(* Properties of the document result *)

\* the elements of the result with skipped = true, as (page, position) pairs
SkippedOfResult ==
    {pe \in UNION {{<<p, e>> : e \in DOMAIN document.pages[p].elements} :
                      p \in DOMAIN document.pages} :
        document.pages[pe[1]].elements[pe[2]].skipped}

ProcessPdfCountsSkipped ==
    pc = "processPdf" => document.skippedElements = Cardinality(SkippedOfResult)

====
